---- MODULE Spec2Model ----
(***************************************************************************)
(* Model of the ExpenseTracker MCP server (src/main.py): one SQLite table  *)
(* `expenses`, the handlers init_db, add_expense, list_expenses and        *)
(* summarize, and the sqlite3 connection each handler opens.               *)
(*                                                                         *)
(* Strings are sequences of character codes, so that SQLite's BINARY       *)
(* collation (byte-wise comparison) is computed and not assumed.           *)
(***************************************************************************)
EXTENDS Integers, Sequences, FiniteSets

\* ------------------------------------------------------------------ bounds

\* Largest number of rows the model stores (add_expense is disabled beyond it).
MaxRows == 2

\* ------------------------------------------------------------------ values

\* Python values that reach sqlite3 as statement parameters.
NULL   == [t |-> "null",   s |-> <<>>, n |-> 0]
\* A value sqlite3 cannot bind (a dict): "type 'dict' is not supported".
Object == [t |-> "object", s |-> <<>>, n |-> 0]
\* An argument the caller left out, so that the Python default applies.
Absent == [t |-> "absent", s |-> <<>>, n |-> 0]
Text(s) == [t |-> "text", s |-> s, n |-> 0]
Real(n) == [t |-> "real", s |-> <<>>, n |-> n]

\* "11", "2", "1" : lexical order "1" < "11" < "2", numeric order 1 < 2 < 11.
Dates      == {Text(<<49, 49>>), Text(<<50>>)}
\* the bounds list_expenses is called with: "1", "11", "2", None, a dict
DateBounds == {Text(<<49>>), Text(<<49, 49>>), Text(<<50>>), NULL, Object}
\* the bounds summarize is called with: "11", "2", None
SummaryBounds == {Text(<<49, 49>>), Text(<<50>>), NULL}
\* "a", "b"
Categories == {Text(<<97>>), Text(<<98>>)}
\* the category argument of summarize: left out, "", "a", a dict
CategoryFilters == {Absent, Text(<<>>), Text(<<97>>), Object}
\* (amount, subcategory, note) as add_expense is called with them: amounts on
\* which REAL addition is exact, "x" and "y" or the argument left out
AmountAndOptionals ==
    {<<Real(1), Absent, Text(<<121>>)>>,
     <<Real(2), Text(<<120>>), Absent>>,
     <<NULL, Absent, Absent>>}

\* ------------------------------------------------------------------ state

VARIABLES
    table_exists,   \* the expenses table is in the database file
    rows,           \* the table's rows, in rowid order
    seq,            \* sqlite_sequence.seq of the table (AUTOINCREMENT)
    refcounting,    \* the interpreter finalises an object as soon as nothing
                    \* refers to it (CPython), or at some later collection
    conn,           \* the sqlite3 connection the latest handler opened, as it
                    \* is when the handler has returned or raised
    last,           \* the latest handler call: its arguments and what it gave back
    returned        \* history: the successful add_expense calls, in call order

vars == <<table_exists, rows, seq, refcounting, conn, last, returned>>

\* ------------------------------------------------------------------ Python

\* A def whose parameter defaults are all None.
DefaultArg_None(x, d) == IF x = Absent THEN NULL ELSE x

\* A parameter default of a def: subcategory="", note="", category=None.
DefaultArg(x, d) == IF x = Absent THEN d ELSE x

\* Python truth value, as `if category:` takes it.
Truthy(x) ==
    CASE x.t = "null"   -> FALSE
      [] x.t = "absent" -> FALSE
      [] x.t = "text"   -> Len(x.s) > 0
      [] x.t = "real"   -> x.n # 0
      [] x.t = "object" -> TRUE

\* sqlite3 binds None, int, float, str and bytes only.
Bindable(params) == \A i \in DOMAIN params : params[i].t # "object"

\* ------------------------------------------------------------------ SQLite

\* memcmp order of two strings (BINARY collation): a < b.
RECURSIVE TextLess(_, _)
TextLess(a, b) ==
    IF b = <<>> THEN FALSE
    ELSE IF a = <<>> THEN TRUE
    ELSE IF Head(a) # Head(b) THEN Head(a) < Head(b)
    ELSE TextLess(Tail(a), Tail(b))

TextLeq(a, b) == a = b \/ TextLess(a, b)

\* x <= y in a WHERE clause: NULL on either side is not true.
SqlLeq(x, y) == x.t = "text" /\ y.t = "text" /\ TextLeq(x.s, y.s)

\* x BETWEEN lo AND hi
Between(x, lo, hi) == SqlLeq(lo, x) /\ SqlLeq(x, hi)

\* x = y in a WHERE clause
SqlEq(x, y) == x.t = "text" /\ y.t = "text" /\ x.s = y.s

Max(a, b) == IF a >= b THEN a ELSE b

RECURSIVE MaxRowid(_)
MaxRowid(rs) == IF rs = <<>> THEN 0 ELSE Max(Head(rs).id, MaxRowid(Tail(rs)))

\* The database file as the statements see it.
Database == [exists |-> table_exists, rows |-> rows, seq |-> seq]
EmptyFile == [exists |-> FALSE, rows |-> <<>>, seq |-> 0]

\* sqlite3.connect(DB_PATH): a new connection, no transaction open.
connect == [open |-> TRUE, in_transaction |-> FALSE]

\* sqlite3 opens a transaction implicitly before an INSERT (legacy
\* isolation_level ""), never before CREATE TABLE or SELECT.
ImplicitBegin(c, is_dml) == [c EXCEPT !.in_transaction = c.in_transaction \/ is_dml]

\* Connection.__exit__ of the `with` block: commit when the body ended
\* normally, rollback when it raised. It does not close the connection.
ContextExit(c, raised) == [c EXCEPT !.in_transaction = FALSE]

\* The handler's frame goes away: its local `c` was the only reference to the
\* connection. A refcounting interpreter finalises (and so closes) it at once
\* on a normal return; the traceback of a raised exception keeps the frame,
\* and any other interpreter leaves the object to a later collection. No
\* handler calls close().
FrameExit(c, raised) ==
    IF refcounting /\ ~raised THEN [open |-> FALSE, in_transaction |-> FALSE] ELSE c

\* What the file holds after __exit__: the pending database when committed,
\* the database as it was when rolled back.
AfterExit(durable, pending, raised) == IF raised THEN durable ELSE pending

\* CREATE TABLE expenses(...) without IF NOT EXISTS.
CreateTable(D) ==
    IF D.exists
    THEN [err |-> "OperationalError", db |-> D]
    ELSE [err |-> "none", db |-> [exists |-> TRUE, rows |-> <<>>, seq |-> 0]]

\* CREATE TABLE IF NOT EXISTS expenses(...)
CreateTableIfNotExists(D) ==
    IF D.exists
    THEN [err |-> "none", db |-> D]
    ELSE [err |-> "none", db |-> [exists |-> TRUE, rows |-> <<>>, seq |-> 0]]

\* The schema with category TEXT and no NOT NULL on it.
NotNullViolated_CategoryNullable(params) == params[1] = NULL \/ params[2] = NULL

\* date TEXT NOT NULL, amount REAL NOT NULL, category TEXT NOT NULL
NotNullViolated(params) == params[1] = NULL \/ params[2] = NULL \/ params[3] = NULL

\* id INTEGER PRIMARY KEY AUTOINCREMENT: one more than the largest rowid the
\* table ever held.
NextRowid(D) == Max(D.seq, MaxRowid(D.rows)) + 1

\* INSERT INTO expenses(date, amount, category, subcategory, note) VALUES (?,?,?,?,?)
Insert(D, params) ==
    IF ~D.exists
    THEN [err |-> "OperationalError", db |-> D, lastrowid |-> 0, rowcount |-> 0]
    ELSE IF ~Bindable(params)
    THEN [err |-> "ProgrammingError", db |-> D, lastrowid |-> 0, rowcount |-> 0]
    ELSE IF NotNullViolated(params)
    THEN [err |-> "IntegrityError", db |-> D, lastrowid |-> 0, rowcount |-> 0]
    ELSE LET id == NextRowid(D)
             row == [id |-> id, date |-> params[1], amount |-> params[2],
                     category |-> params[3], subcategory |-> params[4],
                     note |-> params[5]]
         IN [err |-> "none",
             db |-> [exists |-> TRUE, rows |-> Append(D.rows, row), seq |-> id],
             lastrowid |-> id, rowcount |-> 1]

\* {"status": "ok", "id": cur.rowcount}
AddResult_Rowcount(cur) == [status |-> "ok", id |-> cur.rowcount]

\* {"status": "ok", "id": cur.lastrowid}
AddResult(cur) == [status |-> "ok", id |-> cur.lastrowid]

\* ORDER BY id ASC: insertion of one row into a sequence sorted by id.
RECURSIVE InsertById(_, _)
InsertById(r, sorted) ==
    IF sorted = <<>> THEN <<r>>
    ELSE IF r.id < Head(sorted).id THEN <<r>> \o sorted
    ELSE <<Head(sorted)>> \o InsertById(r, Tail(sorted))

RECURSIVE OrderById(_)
OrderById(rs) == IF rs = <<>> THEN <<>> ELSE InsertById(Head(rs), OrderById(Tail(rs)))

\* WHERE date BETWEEN ? AND ? with an exclusive upper end.
InRange_UpperExclusive(r, start, end) ==
    SqlLeq(start, r.date) /\ SqlLeq(r.date, end) /\ r.date # end

\* WHERE date BETWEEN ? AND ?
InRange(r, start, end) == Between(r.date, start, end)

\* dict(zip(cols, r)) over the six selected columns
RowDict(r) ==
    [id |-> r.id, date |-> r.date, amount |-> r.amount, category |-> r.category,
     subcategory |-> r.subcategory, note |-> r.note]

RECURSIVE MapRowDict(_)
MapRowDict(rs) ==
    IF rs = <<>> THEN <<>> ELSE <<RowDict(Head(rs))>> \o MapRowDict(Tail(rs))

\* SELECT id, date, amount, category, subcategory, note FROM expenses
\* WHERE date BETWEEN ? AND ? ORDER BY id ASC
SelectRange(D, start, end) ==
    IF ~D.exists
    THEN [err |-> "OperationalError", fetchall |-> <<>>]
    ELSE IF ~Bindable(<<start, end>>)
    THEN [err |-> "ProgrammingError", fetchall |-> <<>>]
    ELSE [err |-> "none",
          fetchall |-> OrderById(SelectSeq(D.rows, LAMBDA r : InRange(r, start, end)))]

\* COUNT(amount) over the rows of one group
SumAmount_Count(rs) == Len(rs)

\* SUM(amount) over the rows of one group
RECURSIVE SumAmount(_)
SumAmount(rs) == IF rs = <<>> THEN 0 ELSE Head(rs).amount.n + SumAmount(Tail(rs))

\* ORDER BY category ASC over the distinct categories of the groups
RECURSIVE OrderByCategory(_)
OrderByCategory(cats) ==
    IF cats = {} THEN <<>>
    ELSE LET m == CHOOSE c \in cats : \A o \in cats : TextLeq(c.s, o.s)
         IN <<m>> \o OrderByCategory(cats \ {m})

\* SUM(amount) with no GROUP BY: one result row even when no row matches.
GroupBySum_NoGroupBy(matching) ==
    IF matching = <<>>
    THEN <<[category |-> NULL, total_amount |-> NULL]>>
    ELSE <<[category |-> matching[1].category,
            total_amount |-> Real(SumAmount(matching))]>>

\* SELECT category, SUM(amount) AS total_amount ... GROUP BY category
\* ORDER BY category ASC
GroupBySum(matching) ==
    LET cats == {matching[i].category : i \in DOMAIN matching}
        order == OrderByCategory(cats)
    IN [k \in DOMAIN order |->
          [category |-> order[k],
           total_amount |->
              Real(SumAmount(SelectSeq(matching, LAMBDA r : r.category = order[k])))]]

\* The query summarize builds and runs: the category condition is appended
\* only when `category` is truthy.
SelectSummary(D, start, end, category) ==
    LET filtered == Truthy(category)
        params == IF filtered THEN <<start, end, category>> ELSE <<start, end>>
        matching == SelectSeq(D.rows,
                        LAMBDA r : /\ InRange(r, start, end)
                                   /\ (filtered => SqlEq(r.category, category)))
    IN IF ~D.exists
       THEN [err |-> "OperationalError", fetchall |-> <<>>]
       ELSE IF ~Bindable(params)
       THEN [err |-> "ProgrammingError", fetchall |-> <<>>]
       ELSE [err |-> "none", fetchall |-> GroupBySum(matching)]

\* ---------------------------------------------------------------- handlers

\* Each handler as a function of the database file and its arguments: the
\* file and the connection when it returns or raises, and what it gives back.

init_db(D) ==
    LET c == ImplicitBegin(connect, FALSE)
        cur == CreateTableIfNotExists(D)
        raised == cur.err # "none"
    IN [db |-> AfterExit(D, cur.db, raised), conn |-> FrameExit(ContextExit(c, raised), raised),
        status |-> IF raised THEN cur.err ELSE "ok"]

add_expense(D, date, amount, category, subcategory, note) ==
    LET cur == Insert(D, <<date, amount, category,
                           DefaultArg(subcategory, Text(<<>>)),
                           DefaultArg(note, Text(<<>>))>>)
        c == ImplicitBegin(connect, D.exists)
        raised == cur.err # "none"
    IN [db |-> AfterExit(D, cur.db, raised), conn |-> FrameExit(ContextExit(c, raised), raised),
        status |-> IF raised THEN cur.err ELSE AddResult(cur).status,
        id |-> IF raised THEN 0 ELSE AddResult(cur).id]

\* A list_expenses whose statement deletes what it has read.
list_expenses_Deleting(D, start, end) ==
    LET cur == SelectRange(D, start, end)
    IN [db |-> [D EXCEPT !.rows = <<>>], conn |-> FrameExit(ContextExit(connect, FALSE), FALSE),
        status |-> IF cur.err # "none" THEN cur.err ELSE "ok",
        out |-> MapRowDict(cur.fetchall)]

list_expenses(D, start, end) ==
    LET c == ImplicitBegin(connect, FALSE)
        cur == SelectRange(D, start, end)
        raised == cur.err # "none"
    IN [db |-> AfterExit(D, D, raised), conn |-> FrameExit(ContextExit(c, raised), raised),
        status |-> IF raised THEN cur.err ELSE "ok",
        out |-> IF raised THEN <<>> ELSE MapRowDict(cur.fetchall)]

summarize(D, start, end, category) ==
    LET c == ImplicitBegin(connect, FALSE)
        cur == SelectSummary(D, start, end, DefaultArg(category, NULL))
        raised == cur.err # "none"
    IN [db |-> AfterExit(D, D, raised), conn |-> FrameExit(ContextExit(c, raised), raised),
        status |-> IF raised THEN cur.err ELSE "ok",
        out |-> IF raised THEN <<>> ELSE cur.fetchall]

\* ------------------------------------------------------------------ actions

Call(op, status, id, start, end, category, listed, summary) ==
    [op |-> op, status |-> status, id |-> id, start |-> start, end |-> end,
     category |-> category, listed |-> listed, summary |-> summary]

\* Module import on a fresh database file: line 32 calls init_db().
Init ==
    LET r == init_db(EmptyFile)
    IN /\ refcounting \in BOOLEAN
       /\ table_exists = r.db.exists
       /\ rows = r.db.rows
       /\ seq = r.db.seq
       /\ conn = r.conn
       /\ last = Call("init_db", r.status, 0, NULL, NULL, NULL, <<>>, <<>>)
       /\ returned = <<>>

InitDb ==
    LET r == init_db(Database)
    IN /\ table_exists' = r.db.exists
       /\ rows' = r.db.rows
       /\ seq' = r.db.seq
       /\ conn' = r.conn
       /\ last' = Call("init_db", r.status, 0, NULL, NULL, NULL, <<>>, <<>>)
       /\ UNCHANGED <<returned, refcounting>>

AddExpense(date, amount, category, subcategory, note) ==
    /\ Len(rows) < MaxRows
    /\ LET r == add_expense(Database, date, amount, category, subcategory, note)
       IN /\ table_exists' = r.db.exists
          /\ rows' = r.db.rows
          /\ seq' = r.db.seq
          /\ conn' = r.conn
          /\ last' = Call("add_expense", r.status, r.id, NULL, NULL, NULL, <<>>, <<>>)
          /\ returned' =
                IF r.status = "ok"
                THEN Append(returned,
                            [id |-> r.id, date |-> date, amount |-> amount,
                             category |-> category, subcategory |-> subcategory,
                             note |-> note])
                ELSE returned
          /\ UNCHANGED refcounting

ListExpenses(start, end) ==
    LET r == list_expenses(Database, start, end)
    IN /\ table_exists' = r.db.exists
       /\ rows' = r.db.rows
       /\ seq' = r.db.seq
       /\ conn' = r.conn
       /\ last' = Call("list_expenses", r.status, 0, start, end, NULL, r.out, <<>>)
       /\ UNCHANGED <<returned, refcounting>>

Summarize(start, end, category) ==
    LET r == summarize(Database, start, end, category)
    IN /\ table_exists' = r.db.exists
       /\ rows' = r.db.rows
       /\ seq' = r.db.seq
       /\ conn' = r.conn
       /\ last' = Call("summarize", r.status, 0, start, end, category, <<>>, r.out)
       /\ UNCHANGED <<returned, refcounting>>

Next ==
    \/ InitDb
    \/ \E date \in Dates \cup {NULL}, category \in Categories \cup {NULL, Object},
          a \in AmountAndOptionals :
          AddExpense(date, a[1], category, a[2], a[3])
    \/ \E start \in DateBounds, end \in DateBounds : ListExpenses(start, end)
    \/ \E start \in SummaryBounds, end \in SummaryBounds, category \in CategoryFilters :
          Summarize(start, end, category)

Spec == Init /\ [][Next]_vars

\* ------------------------------------------------------------------ claims

\* Lexical order of two strings, stated directly: a is a prefix of b, or the
\* first position where they differ holds the smaller character in a.
LexLeq(a, b) ==
    \/ /\ Len(a) <= Len(b)
       /\ \A i \in 1..Len(a) : a[i] = b[i]
    \/ \E i \in 1..Len(a) :
          /\ i <= Len(b)
          /\ a[i] < b[i]
          /\ \A j \in 1..(i - 1) : a[j] = b[j]

\* start <= date <= end for a stored date and two bounds; no date lies
\* between bounds that are not strings.
DateWithin(date, start, end) ==
    /\ date.t = "text" /\ start.t = "text" /\ end.t = "text"
    /\ LexLeq(start.s, date.s)
    /\ LexLeq(date.s, end.s)

\* The arithmetic sum of the amounts of the rows with the indices in S.
RECURSIVE AmountOver(_)
AmountOver(S) ==
    IF S = {} THEN 0
    ELSE LET i == CHOOSE i \in S : TRUE IN rows[i].amount.n + AmountOver(S \ {i})

\* What a caller who left an optional argument out expects to read back.
Supplied(x) == IF x = Absent THEN Text(<<>>) ELSE x

\* C1: the ids the successful add_expense calls returned, in call order, are
\* strictly increasing, whatever calls came in between; so no id is returned
\* twice.
C1_IdsStrictlyIncreasing ==
    \A i \in DOMAIN returned : \A j \in DOMAIN returned :
        i < j => returned[i].id < returned[j].id

\* Two add_expense calls have succeeded and the latest call is one of them.
C1_Witness ==
    /\ Len(returned) = 2
    /\ last.op = "add_expense"
    /\ last.status = "ok"
    /\ last.id = returned[2].id

\* C2: for string bounds d1 <= d2, list_expenses(d1, d2) returns exactly one
\* record per stored row whose date lies lexically within [d1, d2], both ends
\* included, no other record, and the records in strictly ascending id order.
C2_ListExactInclusiveRange ==
    (/\ last.op = "list_expenses"
     /\ last.start.t = "text" /\ last.end.t = "text"
     /\ LexLeq(last.start.s, last.end.s))
    =>
    /\ last.status = "ok"
    /\ \A i \in DOMAIN rows :
          DateWithin(rows[i].date, last.start, last.end)
          => Cardinality({k \in DOMAIN last.listed : last.listed[k] = rows[i]}) = 1
    /\ \A k \in DOMAIN last.listed :
          \E i \in DOMAIN rows :
             /\ rows[i] = last.listed[k]
             /\ DateWithin(rows[i].date, last.start, last.end)
    /\ \A k \in DOMAIN last.listed : \A m \in DOMAIN last.listed :
          k < m => last.listed[k].id < last.listed[m].id

\* A list over d1 < d2 that returns one of two stored rows, the one whose date
\* equals the upper bound.
C2_Witness ==
    /\ last.op = "list_expenses"
    /\ last.start.t = "text" /\ last.end.t = "text"
    /\ last.start # last.end
    /\ LexLeq(last.start.s, last.end.s)
    /\ Len(rows) = 2
    /\ Len(last.listed) = 1
    /\ last.listed[1].date = last.end

\* C3: summarize(start, end) without a category returns one record per
\* category that has a row within [start, end], none for any other category,
\* each total the sum of amount over those rows of the category, and the
\* records in strictly ascending order of category (so none twice).
C3_SummaryPerCategory ==
    (/\ last.op = "summarize"
     /\ last.category = Absent)
    =>
    LET within == {i \in DOMAIN rows : DateWithin(rows[i].date, last.start, last.end)}
        out == last.summary
    IN /\ last.status = "ok"
       /\ \A i \in within : \E k \in DOMAIN out : out[k].category = rows[i].category
       /\ \A k \in DOMAIN out :
             /\ \E i \in within : rows[i].category = out[k].category
             /\ out[k].total_amount =
                   Real(AmountOver({i \in within : rows[i].category = out[k].category}))
       /\ \A k \in DOMAIN out : \A m \in DOMAIN out :
             k < m => /\ out[k].category # out[m].category
                      /\ LexLeq(out[k].category.s, out[m].category.s)

\* A summary over two rows stored as "b" then "a": two records, "a" first.
C3_Witness ==
    /\ last.op = "summarize"
    /\ last.category = Absent
    /\ Len(rows) = 2
    /\ rows[1].category = Text(<<98>>)
    /\ rows[2].category = Text(<<97>>)
    /\ Len(last.summary) = 2
    /\ last.summary[1].category = Text(<<97>>)

\* C4: summarize(start, end, c) with a string c returns the empty sequence
\* when no row within [start, end] has category c, and otherwise exactly one
\* record, for category c.
C4_CategoryFilterAsStated ==
    (/\ last.op = "summarize"
     /\ last.category.t = "text")
    =>
    LET hit == {i \in DOMAIN rows :
                   /\ DateWithin(rows[i].date, last.start, last.end)
                   /\ rows[i].category = last.category}
    IN /\ last.status = "ok"
       /\ IF hit = {}
          THEN last.summary = <<>>
          ELSE /\ Len(last.summary) = 1
               /\ last.summary[1].category = last.category

\* C5: every list_expenses that returns, whenever it is called, holds for
\* each earlier successful add_expense whose date lies within the bounds
\* exactly one record with the id that call returned, carrying the date,
\* amount and category of the call and its subcategory and note, the empty
\* string for one left out.
C5_AddedRowsStayListed ==
    (/\ last.op = "list_expenses"
     /\ last.status = "ok")
    =>
    \A j \in DOMAIN returned :
        DateWithin(returned[j].date, last.start, last.end)
        =>
        /\ Cardinality({k \in DOMAIN last.listed :
                           last.listed[k].id = returned[j].id}) = 1
        /\ \A k \in DOMAIN last.listed :
              last.listed[k].id = returned[j].id
              => /\ last.listed[k].date = returned[j].date
                 /\ last.listed[k].amount = returned[j].amount
                 /\ last.listed[k].category = returned[j].category
                 /\ last.listed[k].subcategory = Supplied(returned[j].subcategory)
                 /\ last.listed[k].note = Supplied(returned[j].note)

\* A list that returns both rows of two earlier add_expense calls, one with
\* the subcategory left out and one with the note left out.
C5_Witness ==
    /\ last.op = "list_expenses"
    /\ last.status = "ok"
    /\ Len(returned) = 2
    /\ Len(last.listed) = 2
    /\ returned[1].subcategory = Absent
    /\ returned[2].note = Absent

\* C6: a step that is a list_expenses or summarize call, returning or
\* failing, leaves the table, its rows and the AUTOINCREMENT sequence (hence
\* the next id) as they were.
C6_QueriesReadOnly ==
    [][last'.op \in {"list_expenses", "summarize"}
       => /\ rows' = rows
          /\ seq' = seq
          /\ table_exists' = table_exists]_vars

\* A summarize that failed, and a list_expenses that returned, on two rows.
C6_Witness ==
    /\ Len(rows) = 2
    /\ \/ last.op = "summarize" /\ last.status = "ProgrammingError"
       \/ last.op = "list_expenses" /\ last.status = "ok" /\ Len(last.listed) = 2

\* C7: add_expense is all or nothing. A call given None for date, amount or
\* category raises and stores nothing; a call that raises for any reason
\* leaves the rows and the sequence as they were; a call that returns "ok"
\* has appended exactly one row, the one with the returned id, to the rows
\* that were there. And in every state every stored row has a date, an amount
\* and a category that are not NULL.
C7_AddAllOrNothing ==
    /\ [](\A i \in DOMAIN rows :
            rows[i].date # NULL /\ rows[i].amount # NULL /\ rows[i].category # NULL)
    /\ [][last'.op = "add_expense"
          => \A date \in Dates \cup {NULL}, category \in Categories \cup {NULL, Object},
                a \in AmountAndOptionals :
                AddExpense(date, a[1], category, a[2], a[3])
                => /\ (date = NULL \/ a[1] = NULL \/ category = NULL)
                         => last'.status # "ok"
                   /\ last'.status # "ok" => (rows' = rows /\ seq' = seq)
                   /\ last'.status = "ok"
                         => /\ Len(rows') = Len(rows) + 1
                            /\ SubSeq(rows', 1, Len(rows)) = rows
                            /\ rows'[Len(rows')].id = last'.id]_vars

\* An add_expense that raised on a store that already holds a row.
C7_Witness ==
    /\ last.op = "add_expense"
    /\ last.status = "IntegrityError"
    /\ Len(rows) = 1

\* C8: init_db on a store whose table exists raises nothing and leaves the
\* table, its rows and the AUTOINCREMENT sequence as they were; and in every
\* state the id the next add_expense would assign is greater than every id
\* returned so far.
C8_InitDbIdempotent ==
    /\ [][(table_exists /\ last'.op = "init_db")
          => /\ last'.status = "ok"
             /\ table_exists'
             /\ rows' = rows
             /\ seq' = seq]_vars
    /\ [](\A j \in DOMAIN returned : returned[j].id < NextRowid(Database))

\* init_db called again on a store that holds two rows.
C8_Witness ==
    /\ last.op = "init_db"
    /\ last.status = "ok"
    /\ Len(rows) = 2
    /\ Len(returned) = 2

\* C9: a list_expenses or summarize call whose arguments are strings or None
\* and whose bounds no stored date lies within returns the empty sequence,
\* not an error.
C9_NoMatchIsEmptyNotError ==
    (/\ last.op \in {"list_expenses", "summarize"}
     /\ last.start # Object /\ last.end # Object /\ last.category # Object
     /\ \A i \in DOMAIN rows : ~DateWithin(rows[i].date, last.start, last.end))
    =>
    /\ last.status = "ok"
    /\ last.listed = <<>>
    /\ last.summary = <<>>

\* A summarize over bounds in reverse order ("2" .. "11") on two rows.
C9_Witness ==
    /\ last.op = "summarize"
    /\ Len(rows) = 2
    /\ last.start = Text(<<50>>)
    /\ last.end = Text(<<49, 49>>)
    /\ last.status = "ok"

\* C10: when a handler has returned or raised, the connection it opened is
\* closed and holds no open transaction.
C10_ConnectionReleased == ~conn.open /\ ~conn.in_transaction

====
